---- MODULE Spec2Model ----
(***************************************************************************)
(* Model of the Google RTC audio processing (AEC) module of SOF:           *)
(* src/audio/google/google_rtc_audio_processing.c.                         *)
(*                                                                         *)
(* The state is the private component data (cd), the tuning blob handler   *)
(* it owns, the component state kept by the module adapter and the pins    *)
(* bound by the last successful prepare().  Each handler of the module     *)
(* interface is one action.  The remaining variables record what the last  *)
(* handler did (its return value, the calls it made to the AEC library,    *)
(* the data it acquired and released on the pins) so that the properties   *)
(* can speak about it.                                                     *)
(***************************************************************************)
EXTENDS Integers, Sequences, FiniteSets, TLC

(* ------------------------------ bounds -------------------------------- *)

\* blobs written while set_config and process() run at the same time
MaxWrites == 2

\* channel counts of the configuration, of the pins and of the blobs
MaxChannels == 2

\* CONFIG_COMP_GOOGLE_RTC_AUDIO_PROCESSING_SAMPLE_RATE_HZ (a Kconfig value)
SampleRateHz == 200

(* --------------------------- program constants ------------------------- *)

GOOGLE_RTC_AUDIO_PROCESSING_FREQENCY_TO_PERIOD_FRAMES == 100
GOOGLE_RTC_NUM_INPUT_PINS == 2
GOOGLE_RTC_NUM_OUTPUT_PINS == 1

\* return values: 0, -EINVAL, -ENOMEM and an opaque non-zero value handed
\* back by the AEC library
OK == "0"
EINVAL == "-EINVAL"
ENOMEM == "-ENOMEM"
ALGERR == "alg-error"

(* ------------------------------ the blob ------------------------------- *)

\* An optional field of the config message is a sequence: empty when the
\* field is not present, <<value>> when it is.
Opt(S) == {<< >>} \cup {<<v>> : v \in S}
Present(f) == f # << >>

Payloads == {1}
Channels == 0..MaxChannels
ParamValues == {1}

\* The config message: tuning payload, capture input / output channel
\* counts, AEC reference delay, microphone gain, each optional.
AllBlobs ==
    [config : Opt(Payloads),
     num_capture_input_channels : Opt(Channels),
     num_capture_output_channels : Opt(Channels),
     aec_reference_delay : Opt(ParamValues),
     mic_gain : Opt(ParamValues)]

\* the groups of fields a blob carries: the tuning payload, the channel
\* counts, the parameters (delay and gain)
Groups(b) ==
    (IF Present(b.config) THEN {"config"} ELSE {})
    \cup (IF Present(b.num_capture_input_channels)
             \/ Present(b.num_capture_output_channels)
          THEN {"channels"} ELSE {})
    \cup (IF Present(b.aec_reference_delay) \/ Present(b.mic_gain)
          THEN {"parameters"} ELSE {})

HasAll(b) ==
    /\ Present(b.config)
    /\ Present(b.num_capture_input_channels)
    /\ Present(b.num_capture_output_channels)
    /\ Present(b.aec_reference_delay)
    /\ Present(b.mic_gain)

\* The blobs written by the control plane: those that carry fields of one
\* group only, in every combination, and those that carry every field.
\* Channel counts written are 1..MaxChannels.
Blobs ==
    {b \in AllBlobs :
        /\ Cardinality(Groups(b)) <= 1 \/ HasAll(b)
        /\ b.num_capture_input_channels # <<0>>
        /\ b.num_capture_output_channels # <<0>>}

\* the blobs that carry every field
FullBlobs == {b \in Blobs : HasAll(b)}

\* the blobs that carry nothing but the two channel counts, both 0 or both
\* MaxChannels
ChannelBlobs ==
    {b \in AllBlobs :
        /\ Groups(b) = {"channels"}
        /\ b.num_capture_input_channels = b.num_capture_output_channels
        /\ b.num_capture_input_channels \in {<<0>>, <<MaxChannels>>}}

\* what an uninitialised channel count may hold
Uninit == {0, 1}

\* the buffer of a blob whose last fragment has not arrived yet
PartialBlob ==
    [config |-> <<0>>, num_capture_input_channels |-> << >>,
     num_capture_output_channels |-> << >>, aec_reference_delay |-> << >>,
     mic_gain |-> << >>]

\* a NULL pointer to a blob is the empty sequence, a valid one is <<blob>>
NULL == << >>

\* What the message reader hands back: the value and the presence flag of
\* every field.  The locals of reconfigure() that receive the values are
\* not initialised, so the value of an absent field is whatever the build
\* leaves there: uninit.
GoogleRtcAudioProcessingParseSofConfigMessage(config, uninit) ==
    LET val(f) == IF Present(f) THEN f[1] ELSE uninit
    IN  [google_rtc_audio_processing_config |-> config.config,
         google_rtc_audio_processing_config_present |-> Present(config.config),
         num_capture_input_channels |-> val(config.num_capture_input_channels),
         num_capture_input_channels_present |->
            Present(config.num_capture_input_channels),
         num_capture_output_channels |-> val(config.num_capture_output_channels),
         num_capture_output_channels_present |->
            Present(config.num_capture_output_channels),
         aec_reference_delay |-> config.aec_reference_delay,
         aec_reference_delay_present |-> Present(config.aec_reference_delay),
         mic_gain |-> config.mic_gain,
         mic_gain_present |-> Present(config.mic_gain)]

(* --------------------------- the blob handler -------------------------- *)

\* struct comp_data_blob_handler: the current blob, the blob being
\* received and whether the latter is complete
NewHandler == [data |-> NULL, data_new |-> NULL, data_ready |-> FALSE]

comp_is_new_data_blob_available(h) ==
    h.data_new # NULL /\ h.data_ready

comp_is_current_data_blob_valid(h) ==
    h.data # NULL

\* comp_get_data_blob(): a complete new blob replaces the current one (which
\* is freed); returns the current blob and its size
comp_get_data_blob(h) ==
    LET h1 == IF comp_is_new_data_blob_available(h)
              THEN [data |-> h.data_new, data_new |-> NULL, data_ready |-> FALSE]
              ELSE h
    IN  [handler |-> h1, config |-> h1.data,
         size |-> IF h1.data = NULL THEN 0 ELSE 1]

\* comp_data_blob_set(): one fragment of a blob.  blob is the content of the
\* whole message, known once the last fragment is there.
comp_data_blob_set(h, state, pos, fragment_size, blob) ==
    IF pos \in {"FIRST", "SINGLE"} /\ fragment_size = 0
    THEN [ret |-> OK, handler |-> h]
    ELSE
    LET h1 == IF pos \in {"FIRST", "SINGLE"}
              THEN [h EXCEPT !.data_new = <<PartialBlob>>, !.data_ready = FALSE]
              ELSE h
    IN  IF h1.data_new = NULL
        THEN [ret |-> ENOMEM, handler |-> h1]
        ELSE IF pos \in {"LAST", "SINGLE"}
        THEN LET h2 == [h1 EXCEPT !.data_new = <<blob>>,
                                  !.data = IF state = "READY" THEN NULL ELSE @]
             IN  [ret |-> OK,
                  handler |->
                     IF h2.data = NULL
                     THEN [data |-> h2.data_new, data_new |-> NULL,
                           data_ready |-> FALSE]
                     ELSE [h2 EXCEPT !.data_ready = TRUE]]
        ELSE [ret |-> OK, handler |-> h1]

(* --------------------------- the AEC library --------------------------- *)

\* A call made to the AEC library: the entry point and its arguments.
\* An argument passed as a NULL pointer is the empty sequence.
Call(fn, a, b) == [fn |-> fn, a |-> a, b |-> b]

\* What a handler run meets outside the module: which of the library's
\* entry points answers non-zero ("none": all of them answer 0) and what the
\* uninitialised locals hold.  Only the entry points that the blob at hand
\* makes the handler call are listed, and the locals only when a channel
\* count is absent from it.
Environments(config) ==
    IF config = NULL
    THEN {[alg_fail |-> "none", uninit |-> 0]}
    ELSE LET b == config[1]
             g == Groups(b)
         IN  [alg_fail : {"none"}
                  \cup (IF "config" \in g THEN {"Reconfigure"} ELSE {})
                  \cup (IF "channels" \in g THEN {"SetStreamFormats"} ELSE {})
                  \cup (IF "parameters" \in g THEN {"Parameters"} ELSE {}),
              uninit : IF Present(b.num_capture_input_channels)
                          # Present(b.num_capture_output_channels)
                       THEN Uninit ELSE {0}]

\* the entry point that answered non-zero in a run of a handler with the
\* result r ("none": none did): the last call of a reconfigure step that
\* returned the library's value, or the failing call of the cycle
Failed(r, alg_fail) ==
    IF r.ret = ALGERR THEN alg_fail
    ELSE IF alg_fail \in {"AnalyzeRender", "ProcessCapture"}
            /\ \E i \in 1..Len(r.calls) : r.calls[i].fn = alg_fail
    THEN alg_fail
    ELSE "none"

(* ------------------ google_rtc_audio_processing_reconfigure ------------ *)

\* line 127 left out
ReconfigureFlagKept(flag) == flag

\* line 127: the pending flag once a non-empty blob has been fetched
ReconfigureFlagAfterFetch(flag) == FALSE

\* lines 171-174 with the assignment made before the return
ChannelsOnMismatchAssigned(num_capture_channels, m) ==
    m.num_capture_input_channels

\* lines 171-174: the capture channel count when both counts are present
\* and differ (the function returns before assigning it)
ChannelsOnMismatch(num_capture_channels, m) == num_capture_channels

\* lines 170-180: the capture channel count adopted from the message
AdoptedChannels(m) ==
    IF m.num_capture_input_channels_present
       /\ m.num_capture_output_channels_present
    THEN m.num_capture_input_channels
    ELSE IF m.num_capture_input_channels_present
    THEN m.num_capture_output_channels
    ELSE m.num_capture_output_channels

\* lines 200-232 with the two pointers swapped in the call
ApplyParametersSwapped(m, alg_fail, r) ==
    IF m.aec_reference_delay_present \/ m.mic_gain_present
    THEN LET calls == Append(r.calls,
                             Call("Parameters", m.aec_reference_delay, m.mic_gain))
         IN  IF alg_fail = "Parameters"
             THEN [r EXCEPT !.ret = ALGERR, !.calls = calls]
             ELSE [r EXCEPT !.ret = OK, !.calls = calls]
    ELSE [r EXCEPT !.ret = OK]

\* lines 200-232: delay and gain, one GoogleRtcAudioProcessingParameters call
ApplyParameters(m, alg_fail, r) ==
    IF m.aec_reference_delay_present \/ m.mic_gain_present
    THEN LET calls == Append(r.calls,
                             Call("Parameters", m.mic_gain, m.aec_reference_delay))
         IN  IF alg_fail = "Parameters"
             THEN [r EXCEPT !.ret = ALGERR, !.calls = calls]
             ELSE [r EXCEPT !.ret = OK, !.calls = calls]
    ELSE [r EXCEPT !.ret = OK]

\* lines 169-198: the channel counts, GoogleRtcAudioProcessingSetStreamFormats
ApplyChannels(m, num_aec_reference_channels, alg_fail, r) ==
    IF m.num_capture_input_channels_present
       \/ m.num_capture_output_channels_present
    THEN IF m.num_capture_input_channels_present
            /\ m.num_capture_output_channels_present
            /\ m.num_capture_input_channels # m.num_capture_output_channels
         THEN [r EXCEPT !.ret = EINVAL,
                        !.num_capture_channels = ChannelsOnMismatch(@, m)]
         ELSE LET ch == AdoptedChannels(m)
                  calls == Append(r.calls,
                                  Call("SetStreamFormats", <<ch, ch>>,
                                       <<num_aec_reference_channels>>))
              IN  IF alg_fail = "SetStreamFormats"
                  THEN [r EXCEPT !.ret = ALGERR, !.calls = calls,
                                 !.num_capture_channels = ch]
                  ELSE ApplyParameters(m, alg_fail,
                           [r EXCEPT !.calls = calls,
                                     !.num_capture_channels = ch])
    ELSE ApplyParameters(m, alg_fail, r)

\* lines 154-167: the tuning payload, GoogleRtcAudioProcessingReconfigure
ApplyConfig(m, num_aec_reference_channels, alg_fail, r) ==
    IF m.google_rtc_audio_processing_config_present
    THEN LET calls == Append(r.calls,
                             Call("Reconfigure",
                                  m.google_rtc_audio_processing_config, << >>))
         IN  IF alg_fail = "Reconfigure"
             THEN [r EXCEPT !.ret = ALGERR, !.calls = calls]
             ELSE ApplyChannels(m, num_aec_reference_channels, alg_fail,
                                [r EXCEPT !.calls = calls])
    ELSE ApplyChannels(m, num_aec_reference_channels, alg_fail, r)

\* The whole function, on the fields of cd it reads and writes.  The result
\* holds the return value, the new values of those fields, the calls made
\* to the library and the blob that was parsed (NULL when none was).
google_rtc_audio_processing_reconfigure(c, alg_fail, uninit) ==
    LET r0 == [ret |-> OK,
               tuning_handler |-> c.tuning_handler,
               reconfigure |-> c.reconfigure,
               num_capture_channels |-> c.num_capture_channels,
               calls |-> << >>,
               config |-> NULL]
    IN  IF ~comp_is_current_data_blob_valid(c.tuning_handler)
           /\ ~comp_is_new_data_blob_available(c.tuning_handler)
        THEN r0
        ELSE
        LET g == comp_get_data_blob(c.tuning_handler)
            r1 == [r0 EXCEPT !.tuning_handler = g.handler]
        IN  IF g.size = 0
            THEN r1
            ELSE IF g.config = NULL
            THEN [r1 EXCEPT !.ret = EINVAL]
            ELSE ApplyConfig(
                    GoogleRtcAudioProcessingParseSofConfigMessage(g.config[1],
                                                                  uninit),
                    c.num_aec_reference_channels, alg_fail,
                    [r1 EXCEPT !.reconfigure = ReconfigureFlagAfterFetch(@),
                               !.config = g.config])

(* ------------------------------- the pins ------------------------------ *)

FrameFmts == {"S16_LE", "S32_LE"}
Rates == {SampleRateHz, 2 * SampleRateHz}

\* an audio format of the module configuration (struct ipc4_audio_format)
AudioFmts ==
    [channels_count : 1..MaxChannels, sampling_frequency : Rates,
     frame_fmt : FrameFmts]

\* sample size in bytes
SampleBytes(frame_fmt) == IF frame_fmt = "S16_LE" THEN 2 ELSE 4

\* source_get_frame_bytes() / sink_get_frame_bytes()
FrameBytes(pin) == pin.channels * SampleBytes(pin.frame_fmt)

\* cd->num_frames, lines 349-350
NumFrames == SampleRateHz \div GOOGLE_RTC_AUDIO_PROCESSING_FREQENCY_TO_PERIOD_FRAMES

\* the per-cycle byte quantum a pin may announce (IBS / OBS): num_frames
\* 16-bit frames of one channel or of MaxChannels channels
Quanta == {NumFrames * 2 * c : c \in {1, MaxChannels}}

\* A source or sink as the pipeline hands it to prepare(): whether its queue
\* id is the AEC feedback queue, its stream format and its minimum available
\* data (source) or minimum free space (sink).  The rate and the encoding it
\* comes with are overwritten before they are read; the pins come with
\* MaxChannels channels.
Pins ==
    [feedback : BOOLEAN, channels : {MaxChannels}, rate : {SampleRateHz},
     frame_fmt : {"S16_LE"}, quantum : Quanta]

\* the arrays prepare() may be given: the right number of pins, or one less
\* or one more
AnyPin == CHOOSE p \in Pins : TRUE
SourceArrays ==
    {<<AnyPin>>, <<AnyPin, AnyPin, AnyPin>>}
    \cup [1..GOOGLE_RTC_NUM_INPUT_PINS -> Pins]
SinkArrays ==
    {<<AnyPin, AnyPin>>} \cup {<<p>> : p \in {q \in Pins : ~q.feedback}}

\* a microphone source first and a reference source second, and a sink,
\* all with the same byte quantum
BoundPins ==
    {a \in [sources : [1..GOOGLE_RTC_NUM_INPUT_PINS -> Pins],
            sinks : [1..GOOGLE_RTC_NUM_OUTPUT_PINS -> Pins]] :
        /\ ~a.sources[1].feedback /\ a.sources[2].feedback
        /\ ~a.sinks[1].feedback
        /\ a.sources[1].quantum = a.sinks[1].quantum
        /\ a.sources[2].quantum = a.sinks[1].quantum}

\* a microphone source first and a reference source second, and a sink
\* with the byte quantum of the microphone source
CyclePins ==
    {a \in [sources : [1..GOOGLE_RTC_NUM_INPUT_PINS -> Pins],
            sinks : [1..GOOGLE_RTC_NUM_OUTPUT_PINS -> Pins]] :
        /\ ~a.sources[1].feedback /\ a.sources[2].feedback
        /\ ~a.sinks[1].feedback
        /\ a.sources[1].quantum = a.sinks[1].quantum}

\* any arrays
AnyPins == [sources : SourceArrays, sinks : SinkArrays]

\* arrays of any length and with any roles whose pins announce the same
\* byte quantum, and the arrays of a microphone source, a reference source
\* and a sink whose reference announces another one
RetryPins ==
    {a \in AnyPins :
        \A i \in 1..Len(a.sources) : a.sources[i].quantum = a.sinks[1].quantum}
    \cup (CyclePins \ BoundPins)

\* ipc4_update_source_format() / ipc4_update_sink_format(): the format of
\* the module configuration is pushed onto the pin
ipc4_update_format(pin, fmt) ==
    [pin EXCEPT !.channels = fmt.channels_count,
                !.rate = fmt.sampling_frequency,
                !.frame_fmt = fmt.frame_fmt]

(* ------------------------------ the samples ---------------------------- *)

\* The circular buffer behind a pin as source_get_data() / sink_get_buffer()
\* describe it: its size (buf_size) and the position of the pointer handed
\* out, both in samples from buf_start.  A cycle asks for num_frames frames;
\* the buffer holds that many, or one frame more, or one sample more.
RingSizes(channels) ==
    {NumFrames * channels, NumFrames * channels + channels,
     NumFrames * channels + 1}
RingsOf(channels) ==
    UNION {{[size |-> n, pos |-> p] : p \in 0..(n - 1)} :
           n \in RingSizes(channels)}

\* the sample at offset 0 of a source buffer; the sample at offset k is
\* base + k (as a uint16_t)
SampleBases == {1, 2^15 - 1}
In(base, offset) == (base + offset) % 2^16

\* what the memory at or beyond buf_end may hold
Beyond == {0, 2^16 - 1}

\* One pass of samples through process().  kind is "ref" for the reference
\* source and "src" for the microphone source and the sink.  channels is the
\* channel count of the frames in the buffer, used the channel count of the
\* loops (cd->num_aec_reference_channels, cd->num_capture_channels).  src
\* and dst are the buffers of the source and of the sink, base the content
\* of the source buffer.
CopyOf(kind, channels, used, base, src, dst) ==
    [kind |-> kind, channels |-> channels, used |-> used, base |-> base,
     src |-> src, dst |-> dst, stage |-> "acquired",
     reads |-> << >>, scratch |-> << >>, writes |-> << >>, out |-> << >>]

NoCopy == CopyOf("none", 0, 0, 0, [size |-> 0, pos |-> 0], [size |-> 0, pos |-> 0])

\* a reference pin of the channel count prepare() read at line 498 and
\* accepted at line 520: at least what the library needs
ReferenceCopies ==
    UNION {UNION {{CopyOf("ref", ch, u, 1, r, r) : r \in RingsOf(ch)} :
                  u \in 1..ch} :
           ch \in 1..MaxChannels}

\* a microphone pin and a sink with the channel count of the configuration
\* (lines 512-514); the capture channel count is the configuration's
\* (line 348) or the one of a blob (lines 175-179), lower or higher
CaptureCopies ==
    UNION {{CopyOf("src", ch, a[1], a[2], a[3], a[4]) :
               a \in (1..MaxChannels) \X SampleBases
                     \X RingsOf(ch) \X RingsOf(ch)} :
           ch \in 1..MaxChannels}

(* -------------------------------- state -------------------------------- *)

VARIABLES
    cfg,        \* the module configuration given at creation (md->cfg)
    cd,         \* struct google_rtc_audio_processing_comp_data
    dev_state,  \* dev->state, kept by the module adapter
    pins,       \* the sources and the sink bound by prepare()
    op,         \* the handler that ran last
    args,       \* its arguments
    ret,        \* its return value
    calls,      \* the calls it made to the AEC library, in order
    events,     \* the acquire / release / commit calls it made on the pins
    steps,      \* the library calls and the calls on the pins of a cycle, in order
    mem,        \* the allocations owned by the module and md->private
    copy,       \* the samples of a cycle: the rings, the scratch, the accesses
    race,       \* set_config and process() run statement by statement
    parsed,     \* the blob its reconfigure step parsed (NULL if none)
    pre,        \* the pending flag, the channel count and writes when it started
    written,    \* the blob completed by the last successful set_config
    writes      \* blobs completed since the last reconfigure step (0, 1, 2+)

vars == <<cfg, cd, dev_state, pins, op, args, ret, calls, events, steps, mem,
          copy, race, parsed, pre, written, writes>>

\* all of them but copy
handler_vars == <<cfg, cd, dev_state, pins, op, args, ret, calls, events, steps,
                  mem, race, parsed, pre, written, writes>>

\* all of them but cd and race
race_frame == <<cfg, dev_state, pins, op, args, ret, calls, events, steps,
                mem, copy, parsed, pre, written, writes>>

\* Two contexts that run at the same time: the control plane in set_config
\* (ctl: the statement it is at) and the pipeline in the reconfigure step of
\* process() (rt), with the local config of reconfigure().  released are the
\* blobs the handler has freed, applied the blobs the reconfigure step has
\* decoded, writes the number of blobs written.  overlap tells that one
\* context has run a statement while the other was inside its handler,
\* stale that the reconfigure step has decoded a blob that had been freed.
NoRace ==
    [ctl |-> "idle", rt |-> "idle", config |-> NULL, released |-> {},
     applied |-> {}, writes |-> 0, overlap |-> FALSE, stale |-> FALSE]

\* What the module owns: cd itself (md->private), the copy of the base
\* configuration extension (md->cfg.basecfg_ext) and, through the fields of
\* cd, the blob handler, the working memory of the library, the library's
\* state and the two scratch buffers.
Resources ==
    {"cd", "basecfg_ext", "tuning_handler", "memory_buffer", "state",
     "process_buffer", "aec_reference_buffer"}

\* Every allocation is "none" (never made, the pointer is NULL), "live" or
\* "freed" (the pointer dangles).  private is md->private.  faults lists
\* what the last handler did to released or absent memory.
NoMem == [heap |-> [r \in Resources |-> "none"], private |-> "NULL",
          faults |-> << >>]

Fault(kind, r) == [fault |-> kind, of |-> r]

\* rfree(), comp_data_blob_handler_free(), GoogleRtcAudioProcessingFree()
\* on the pointer to r: nothing for NULL, a second release for a dangling
\* pointer
rfree(m, r) ==
    IF m.heap[r] = "live" THEN [m EXCEPT !.heap[r] = "freed"]
    ELSE IF m.heap[r] = "freed"
    THEN [m EXCEPT !.faults = Append(@, Fault("double_free", r))]
    ELSE m

RECURSIVE ReleaseAll(_, _)
ReleaseAll(m, order) ==
    IF order = << >> THEN m
    ELSE ReleaseAll(rfree(m, Head(order)), Tail(order))

NoPins == [sources |-> << >>, sinks |-> << >>,
           aec_channels |-> 0, microphone_stream_channels |-> 0,
           output_stream_channels |-> 0]

Pre(c, w) == [reconfigure |-> c.reconfigure,
              num_capture_channels |-> c.num_capture_channels,
              writes |-> w]

\* every module configuration (the reference rate is read nowhere)
Configs ==
    [audio_fmt : AudioFmts,
     reference_fmt : {f \in AudioFmts : f.sampling_frequency = SampleRateHz}]

\* the configurations prepare() can accept
GoodConfigs ==
    {c \in Configs :
        /\ c.audio_fmt.sampling_frequency = SampleRateHz
        /\ c.audio_fmt.frame_fmt = "S16_LE"
        /\ c.reference_fmt = c.audio_fmt}

\* the configurations whose reference has as many channels as the capture,
\* in the same encoding
PinConfigs ==
    {c \in Configs :
        /\ c.reference_fmt.channels_count = c.audio_fmt.channels_count
        /\ c.reference_fmt.frame_fmt = c.audio_fmt.frame_fmt}

\* the configurations whose capture format prepare() can accept, with any
\* reference channel count and encoding
CycleConfigs ==
    {c \in Configs :
        /\ c.audio_fmt.sampling_frequency = SampleRateHz
        /\ c.audio_fmt.frame_fmt = "S16_LE"}

InitWith(configs) ==
    /\ copy = NoCopy
    /\ race = NoRace
    /\ cfg \in configs
    /\ cd = [num_frames |-> 0,
             num_aec_reference_channels |-> 0,
             num_capture_channels |-> 0,
             tuning_handler |-> NewHandler,
             reconfigure |-> FALSE,
             aec_reference_source |-> 0,
             raw_microphone_source |-> 0]
    /\ dev_state = "NONE"
    /\ pins = NoPins
    /\ op = "none"
    /\ args = [none |-> TRUE]
    /\ ret = OK
    /\ calls = << >>
    /\ events = << >>
    /\ steps = << >>
    /\ mem = NoMem
    /\ parsed = NULL
    /\ pre = Pre(cd, 0)
    /\ written = NULL
    /\ writes = 0

Init == InitWith(GoodConfigs)
InitPins == InitWith(PinConfigs)
InitCycle == InitWith(CycleConfigs)
InitLife == InitWith(Configs)

\* the samples of one cycle, with an instance that init() has not seen yet
InitCopy ==
    /\ copy \in ReferenceCopies \cup CaptureCopies
    /\ race = NoRace
    /\ cfg = CHOOSE c \in GoodConfigs : TRUE
    /\ cd = [num_frames |-> 0,
             num_aec_reference_channels |-> 0,
             num_capture_channels |-> 0,
             tuning_handler |-> NewHandler,
             reconfigure |-> FALSE,
             aec_reference_source |-> 0,
             raw_microphone_source |-> 0]
    /\ dev_state = "NONE"
    /\ pins = NoPins
    /\ op = "none"
    /\ args = [none |-> TRUE]
    /\ ret = OK
    /\ calls = << >>
    /\ events = << >>
    /\ steps = << >>
    /\ mem = NoMem
    /\ parsed = NULL
    /\ pre = Pre(cd, 0)
    /\ written = NULL
    /\ writes = 0

(* --------------------- google_rtc_audio_processing_init ---------------- *)

\* the steps of init() that can fail, in order, with the value returned
InitSteps ==
    <<[step |-> "cd", ret |-> ENOMEM],
      [step |-> "basecfg_ext", ret |-> ENOMEM],
      [step |-> "tuning_handler", ret |-> ENOMEM],
      [step |-> "memory_buffer", ret |-> ENOMEM],
      [step |-> "state", ret |-> EINVAL],
      [step |-> "Parameters", ret |-> ALGERR],
      [step |-> "process_buffer", ret |-> EINVAL],
      [step |-> "aec_reference_buffer", ret |-> ENOMEM]>>

\* the allocations init() has made when it fails at step fail (0: when it
\* succeeds)
Allocated(fail) ==
    {InitSteps[i].step :
        i \in 1..(IF fail = 0 THEN Len(InitSteps) ELSE fail - 1)}
    \cap Resources

\* lines 428-441 without line 438
InitFailKeepingProcessBuffer(m) ==
    IF m.heap["cd"] = "none"
    THEN m
    ELSE ReleaseAll(m, <<"aec_reference_buffer", "state", "memory_buffer",
                         "basecfg_ext", "tuning_handler", "cd">>)

\* lines 428-441: the fail label of init()
InitFail(m) ==
    IF m.heap["cd"] = "none"
    THEN m
    ELSE ReleaseAll(m, <<"aec_reference_buffer", "state", "memory_buffer",
                         "basecfg_ext", "process_buffer", "tuning_handler",
                         "cd">>)

\* the allocations when init() returns
InitMem(fail) ==
    LET m == [heap |-> [r \in Resources |->
                          IF r \in Allocated(fail) THEN "live" ELSE "none"],
              private |-> IF "cd" \in Allocated(fail) THEN "cd" ELSE "NULL",
              faults |-> << >>]
    IN  IF fail = 0 THEN m ELSE InitFail(m)

\* lines 347-350 without line 420
InitialCdFlagClear(c) ==
    [num_frames |-> NumFrames,
     num_aec_reference_channels |-> c.reference_fmt.channels_count,
     num_capture_channels |-> c.audio_fmt.channels_count,
     tuning_handler |-> NewHandler,
     reconfigure |-> FALSE,
     aec_reference_source |-> 0,
     raw_microphone_source |-> 0]

\* cd as init() leaves it when every step succeeded (lines 347-350, 420)
InitialCd(c) ==
    [num_frames |-> NumFrames,
     num_aec_reference_channels |-> c.reference_fmt.channels_count,
     num_capture_channels |-> c.audio_fmt.channels_count,
     tuning_handler |-> NewHandler,
     reconfigure |-> TRUE,
     aec_reference_source |-> 0,
     raw_microphone_source |-> 0]

google_rtc_audio_processing_init ==
    /\ dev_state = "NONE"
    /\ \E fail \in 0..Len(InitSteps) :
          /\ op' = "init"
          /\ args' = [fail |-> fail]
          /\ pre' = Pre(cd, writes)
          /\ mem' = InitMem(fail)
          /\ IF fail = 0
             THEN /\ cd' = InitialCd(cfg)
                  /\ dev_state' = "READY"
                  /\ ret' = OK
                  /\ calls' = <<Call("CreateWithConfig",
                                     <<cfg.audio_fmt.channels_count,
                                       cfg.audio_fmt.channels_count>>,
                                     <<cfg.reference_fmt.channels_count>>),
                                Call("Parameters", <<0>>, <<0>>)>>
             ELSE /\ cd' = cd
                  /\ dev_state' = "FAILED"
                  /\ ret' = InitSteps[fail].ret
                  /\ calls' = << >>
    /\ events' = << >>
    /\ steps' = << >>
    /\ parsed' = NULL
    /\ UNCHANGED <<cfg, pins, written, writes, copy, race>>

(* ------------------ google_rtc_audio_processing_set_config ------------- *)

ParamIds == {"SOF_IPC4_SWITCH_CONTROL_PARAM_ID", "SOF_IPC4_ENUM_CONTROL_PARAM_ID",
             "SOF_IPC4_BYTES_CONTROL_PARAM_ID"}
Positions == {"SINGLE", "FIRST", "MIDDLE", "LAST"}

\* lines 271-274 without line 273: the new blob is made the current one and
\* the pending flag is left as it was
AcceptNewBlobUnflagged(c) ==
    IF comp_is_new_data_blob_available(c.tuning_handler)
    THEN [c EXCEPT !.tuning_handler = comp_get_data_blob(@).handler]
    ELSE c

\* lines 271-274 with the channel count of the new blob adopted on the spot
AcceptNewBlobApplied(c) ==
    IF comp_is_new_data_blob_available(c.tuning_handler)
    THEN LET g == comp_get_data_blob(c.tuning_handler)
             m == GoogleRtcAudioProcessingParseSofConfigMessage(g.config[1], 0)
         IN  [c EXCEPT !.tuning_handler = g.handler,
                       !.reconfigure = TRUE,
                       !.num_capture_channels = AdoptedChannels(m)]
    ELSE c

\* lines 271-274: a complete new blob is made the current one at once and
\* the pending flag is raised
AcceptNewBlob(c) ==
    IF comp_is_new_data_blob_available(c.tuning_handler)
    THEN [c EXCEPT !.tuning_handler = comp_get_data_blob(@).handler,
                   !.reconfigure = TRUE]
    ELSE c

\* lines 254-276 only: the control id is not looked at
SetConfigAnyControl(c, state, param_id, pos, fragment_size, blob) ==
    LET s == comp_data_blob_set(c.tuning_handler, state, pos,
                                fragment_size, blob)
        c1 == [c EXCEPT !.tuning_handler = s.handler]
    IN  IF s.ret # OK
        THEN [ret |-> s.ret, cd |-> c1]
        ELSE [ret |-> OK, cd |-> AcceptNewBlob(c1)]

\* the handler on cd: the return value and the new cd
SetConfig(c, state, param_id, pos, fragment_size, blob) ==
    IF param_id \in {"SOF_IPC4_SWITCH_CONTROL_PARAM_ID",
                     "SOF_IPC4_ENUM_CONTROL_PARAM_ID"}
    THEN [ret |-> EINVAL, cd |-> c]
    ELSE LET s == comp_data_blob_set(c.tuning_handler, state, pos,
                                     fragment_size, blob)
             c1 == [c EXCEPT !.tuning_handler = s.handler]
         IN  IF s.ret # OK
             THEN [ret |-> s.ret, cd |-> c1]
             ELSE [ret |-> OK, cd |-> AcceptNewBlob(c1)]

\* whether this call delivered the last byte of a blob
CompletesBlob(r, pos, fragment_size) ==
    /\ r.ret = OK
    /\ pos \in {"SINGLE", "LAST"}
    /\ ~(pos = "SINGLE" /\ fragment_size = 0)

\* the arguments of a call: a position and a fragment size for a binary
\* control (the size matters to the first fragment only)
SetConfigArgs ==
    {<<p, "SINGLE", 0>> : p \in ParamIds}
    \cup {<<"SOF_IPC4_BYTES_CONTROL_PARAM_ID", pos, 1>> : pos \in Positions}
    \cup {<<"SOF_IPC4_BYTES_CONTROL_PARAM_ID", "FIRST", 0>>}

google_rtc_audio_processing_set_config(blobs, fragmented) ==
    /\ dev_state \in {"READY", "ACTIVE"}
    /\ \E a \in SetConfigArgs :
       LET param_id == a[1]
           pos == a[2]
           fragment_size == a[3]
       IN
       \E blob \in IF param_id # "SOF_IPC4_BYTES_CONTROL_PARAM_ID"
                      \/ fragment_size = 0
                   THEN {PartialBlob}
                   ELSE IF pos = "SINGLE" THEN blobs
                   ELSE IF pos = "LAST" THEN fragmented
                   ELSE {PartialBlob} :
          LET r == SetConfig(cd, dev_state, param_id, pos, fragment_size, blob)
              done == param_id = "SOF_IPC4_BYTES_CONTROL_PARAM_ID"
                      /\ CompletesBlob(r, pos, fragment_size)
          IN  /\ op' = "set_config"
              /\ args' = [param_id |-> param_id]
              /\ pre' = Pre(cd, writes)
              /\ cd' = r.cd
              /\ ret' = r.ret
              /\ written' = IF done THEN <<blob>> ELSE written
              /\ writes' = IF done THEN (IF writes = 0 THEN 1 ELSE 2) ELSE writes
    /\ calls' = << >>
    /\ events' = << >>
    /\ steps' = << >>
    /\ parsed' = NULL
    /\ UNCHANGED <<cfg, dev_state, pins, mem, copy, race>>

(* -------------------- google_rtc_audio_processing_prepare -------------- *)
\* In args, retry tells that the handler that ran before this prepare() was
\* a prepare() that failed one of the checks of lines 482-581.

\* lines 543-551 without the default case
AnyFrameFmtSupported(frame_fmt) == TRUE

\* lines 543-551: the frame formats prepare() accepts (CONFIG_FORMAT_S16LE)
FrameFmtSupported(frame_fmt) == frame_fmt = "S16_LE"

\* lines 553-556
RateSupported(rate) == rate = SampleRateHz

\* lines 493-507: the loop that finds the reference and the microphone
\* source; a source is the reference when its queue id is the feedback
\* queue, the microphone otherwise.  The result is cd with the two indices
\* (0-based, as in the code) and the channel counts read.
RECURSIVE FindSources(_, _, _)
FindSources(sources, i, acc) ==
    IF i >= Len(sources)
    THEN acc
    ELSE FindSources(sources, i + 1,
            IF sources[i + 1].feedback
            THEN [acc EXCEPT !.aec_reference_source = i,
                             !.aec_channels = sources[i + 1].channels]
            ELSE [acc EXCEPT !.raw_microphone_source = i,
                             !.microphone_stream_channels =
                                 sources[i + 1].channels])

\* lines 510-514: the formats of the configuration pushed onto the pins
EnforceFormats(c, sources, sinks, f) ==
    LET s1 == [sources EXCEPT ![f.aec_reference_source + 1] =
                  ipc4_update_format(@, c.reference_fmt)]
        s2 == [s1 EXCEPT ![f.raw_microphone_source + 1] =
                  ipc4_update_format(@, c.audio_fmt)]
    IN  [sources |-> s2,
         sinks |-> <<ipc4_update_format(sinks[1], c.audio_fmt)>>]

\* lines 558-573 only: the reference source is not checked
QuantaMatchButReference(num_frames, mic, sink, ref) ==
    /\ num_frames * FrameBytes(mic) = mic.quantum
    /\ num_frames * FrameBytes(sink) = sink.quantum

\* lines 558-581: IBS / OBS of the microphone source, the sink and the
\* reference source against num_frames * frame size
QuantaMatch(num_frames, mic, sink, ref) ==
    /\ num_frames * FrameBytes(mic) = mic.quantum
    /\ num_frames * FrameBytes(sink) = sink.quantum
    /\ num_frames * FrameBytes(ref) = ref.quantum

\* the returns of lines 484-581 with the pending flag dropped on the way out
PrepareFailDroppingFlag(c) ==
    [ret |-> EINVAL, cd |-> [c EXCEPT !.reconfigure = FALSE], pins |-> NoPins,
     calls |-> << >>, config |-> NULL]

\* lines 484-581: every check that fails returns -EINVAL at once; nothing
\* is released and cd keeps what has been written to it so far
PrepareFail(c) ==
    [ret |-> EINVAL, cd |-> c, pins |-> NoPins, calls |-> << >>,
     config |-> NULL]

\* The handler on cd.  The result holds the return value, the new cd, the
\* pins as the handler leaves them, the calls made to the library and the
\* blob parsed.
Prepare(c, config, sources, sinks, alg_fail, uninit) ==
    LET fail(cd1) == PrepareFail(cd1)
    IN
    IF Len(sources) # GOOGLE_RTC_NUM_INPUT_PINS THEN fail(c)
    ELSE IF Len(sinks) # GOOGLE_RTC_NUM_OUTPUT_PINS THEN fail(c)
    ELSE
    LET f == FindSources(sources, 0,
                [aec_reference_source |-> c.aec_reference_source,
                 raw_microphone_source |-> c.raw_microphone_source,
                 aec_channels |-> 0, microphone_stream_channels |-> 0])
        c1 == [c EXCEPT !.aec_reference_source = f.aec_reference_source,
                        !.raw_microphone_source = f.raw_microphone_source]
        e == EnforceFormats(config, sources, sinks, f)
        sink == e.sinks[1]
        mic == e.sources[c1.raw_microphone_source + 1]
        ref == e.sources[c1.aec_reference_source + 1]
        output_stream_channels == sink.channels
    IN
    IF c1.num_aec_reference_channels > f.aec_channels THEN fail(c1)
    ELSE IF c1.num_capture_channels > f.microphone_stream_channels THEN fail(c1)
    ELSE IF c1.num_capture_channels > output_stream_channels THEN fail(c1)
    ELSE IF ~FrameFmtSupported(sink.frame_fmt) THEN fail(c1)
    ELSE IF ~RateSupported(sink.rate) THEN fail(c1)
    ELSE IF ~QuantaMatch(c1.num_frames, mic, sink, ref) THEN fail(c1)
    ELSE
    LET r == google_rtc_audio_processing_reconfigure(c1, alg_fail, uninit)
    IN  [ret |-> r.ret,
         cd |-> [c1 EXCEPT !.tuning_handler = r.tuning_handler,
                           !.reconfigure = r.reconfigure,
                           !.num_capture_channels = r.num_capture_channels],
         pins |-> [sources |-> e.sources, sinks |-> e.sinks,
                   aec_channels |-> f.aec_channels,
                   microphone_stream_channels |-> f.microphone_stream_channels,
                   output_stream_channels |-> output_stream_channels],
         calls |-> r.calls,
         config |-> r.config]

\* whether the handler got as far as its reconfigure step
PrepareReconfigured(r) == r.pins # NoPins

\* What the properties need to know of the pins prepare() was given: how
\* many sources and sinks, how many sources with the feedback queue id, and
\* whether on the three pins the handler uses (reference, microphone, sink)
\* the byte quantum is num_frames * frame size.
PinFacts(c, config, sources, sinks) ==
    LET wellformed == Len(sources) = GOOGLE_RTC_NUM_INPUT_PINS
                      /\ Len(sinks) = GOOGLE_RTC_NUM_OUTPUT_PINS
        e == EnforceFormats(config, sources, sinks, c)
        used == {e.sources[c.aec_reference_source + 1],
                 e.sources[c.raw_microphone_source + 1], e.sinks[1]}
    IN  [num_of_sources |-> Len(sources),
         num_of_sinks |-> Len(sinks),
         feedback |-> Cardinality({i \in 1..Len(sources) : sources[i].feedback}),
         quanta_equal |->
            wellformed
            /\ \A pin \in used : pin.quantum = c.num_frames * FrameBytes(pin)]

google_rtc_audio_processing_prepare(arrays) ==
    /\ dev_state = "READY"
    /\ \E a \in arrays,
          env \in Environments(comp_get_data_blob(cd.tuning_handler).config) :
          LET sources == a.sources
              sinks == a.sinks
              r == Prepare(cd, cfg, sources, sinks, env.alg_fail, env.uninit)
          IN  /\ op' = "prepare"
              /\ args' = [pins |-> PinFacts(r.cd, cfg, sources, sinks),
                          reconfigured |-> PrepareReconfigured(r),
                          failed |-> Failed(r, env.alg_fail),
                          retry |-> op = "prepare" /\ ~args.reconfigured]
              /\ pre' = Pre(cd, writes)
              /\ cd' = r.cd
              /\ ret' = r.ret
              /\ calls' = r.calls
              /\ parsed' = r.config
              /\ dev_state' = IF r.ret = OK THEN "ACTIVE" ELSE "READY"
              /\ pins' = IF r.ret = OK THEN r.pins ELSE pins
              /\ writes' = IF PrepareReconfigured(r) THEN 0 ELSE writes
    /\ events' = << >>
    /\ steps' = << >>
    /\ UNCHANGED <<cfg, written, mem, copy, race>>

(* -------------------- google_rtc_audio_processing_process -------------- *)

\* line 669 without the test
ReconfigureAlways(flag) == TRUE

\* line 669: process() runs the reconfigure step only when the flag is set
ReconfigureNeeded(flag) == flag

\* a call on a pin: source_get_data / source_release_data on a source,
\* sink_get_buffer / sink_commit_buffer on the sink, with its byte count
Event(fn, pin, bytes) == [fn |-> fn, pin |-> pin, bytes |-> bytes]

\* lines 679-765 with the sink asked for the reference stream's byte count
PinEventsReferenceBytes(ref_bytes, src_bytes) ==
    <<Event("source_get_data", "ref", ref_bytes),
      Event("source_release_data", "ref", ref_bytes),
      Event("source_get_data", "src", src_bytes),
      Event("source_release_data", "src", src_bytes),
      Event("sink_get_buffer", "dst", ref_bytes),
      Event("sink_commit_buffer", "dst", ref_bytes)>>

\* lines 679-751 only: the sink buffer is not committed
PinEventsUncommitted(ref_bytes, src_bytes) ==
    <<Event("source_get_data", "ref", ref_bytes),
      Event("source_release_data", "ref", ref_bytes),
      Event("source_get_data", "src", src_bytes),
      Event("source_release_data", "src", src_bytes),
      Event("sink_get_buffer", "dst", src_bytes)>>

\* lines 679-765: the calls process() makes on the pins, in order.
\* ref_bytes is num_frames * frame bytes of the reference stream, src_bytes
\* num_frames * frame bytes of the microphone stream; the sink is asked for,
\* and committed with, the microphone stream's byte count.  The pins hold a
\* full quantum when a cycle runs, so that the three acquisitions succeed
\* (lines 683-686).
PinEvents(ref_bytes, src_bytes) ==
    <<Event("source_get_data", "ref", ref_bytes),
      Event("source_release_data", "ref", ref_bytes),
      Event("source_get_data", "src", src_bytes),
      Event("source_release_data", "src", src_bytes),
      Event("sink_get_buffer", "dst", src_bytes),
      Event("sink_commit_buffer", "dst", src_bytes)>>

\* lines 669-765 with the capture processed while the microphone data is
\* still held
ProcessStepsCaptureEarly(apply_calls, e, analyze, capture) ==
    apply_calls \o SubSeq(e, 1, 1) \o <<analyze>> \o SubSeq(e, 2, 3)
        \o <<capture>> \o SubSeq(e, 4, Len(e))

\* lines 669-765: the order of a cycle.  The calls of the reconfigure step
\* come first; the reference is analysed between its acquisition and its
\* release, the capture is processed after the microphone data has been
\* released and before the sink buffer is asked for.
ProcessSteps(apply_calls, e, analyze, capture) ==
    apply_calls \o SubSeq(e, 1, 1) \o <<analyze>> \o SubSeq(e, 2, 4)
        \o <<capture>> \o SubSeq(e, 5, Len(e))

\* lines 707-717, 740-748 and 770: the values GoogleRtcAudioProcessingAnalyzeRender
\* and GoogleRtcAudioProcessingProcessCapture return are not looked at; a
\* cycle that got past its reconfigure step returns 0
CycleReturn(analyze_ret, capture_ret) == OK

\* what the entry point fn answers when alg_fail is the one that fails
Answer(fn, alg_fail) == IF alg_fail = fn THEN ALGERR ELSE OK

\* The handler on cd and the bound pins.
Process(c, p, alg_fail, uninit) ==
    LET r == IF ReconfigureNeeded(c.reconfigure)
             THEN google_rtc_audio_processing_reconfigure(c, alg_fail, uninit)
             ELSE [ret |-> OK, tuning_handler |-> c.tuning_handler,
                   reconfigure |-> c.reconfigure,
                   num_capture_channels |-> c.num_capture_channels,
                   calls |-> << >>, config |-> NULL]
        c1 == [c EXCEPT !.tuning_handler = r.tuning_handler,
                        !.reconfigure = r.reconfigure,
                        !.num_capture_channels = r.num_capture_channels]
        src_stream == p.sources[c1.raw_microphone_source + 1]
        ref_stream == p.sources[c1.aec_reference_source + 1]
        analyze == Call("AnalyzeRender", <<c1.num_aec_reference_channels>>, << >>)
        capture == Call("ProcessCapture", <<c1.num_capture_channels>>, << >>)
        e == PinEvents(c1.num_frames * FrameBytes(ref_stream),
                       c1.num_frames * FrameBytes(src_stream))
    IN  IF r.ret # OK
        THEN [ret |-> r.ret, cd |-> c1, calls |-> r.calls, events |-> << >>,
              steps |-> r.calls, config |-> r.config]
        ELSE [ret |-> CycleReturn(Answer("AnalyzeRender", alg_fail),
                                  Answer("ProcessCapture", alg_fail)),
              cd |-> c1,
              calls |-> r.calls \o <<analyze, capture>>,
              events |-> e,
              steps |-> ProcessSteps(r.calls, e, analyze, capture),
              config |-> r.config]

\* the library failing in the analysis of the reference or in the
\* processing of the capture
CycleFailures ==
    [alg_fail : {"AnalyzeRender", "ProcessCapture"}, uninit : {0}]

\* a cycle in which the library may fail as failures says, besides failing
\* in the reconfigure step.  In args, failed is the entry point that
\* answered non-zero.
ProcessCycle(failures) ==
    /\ dev_state = "ACTIVE"
    /\ \E env \in Environments(IF ReconfigureNeeded(cd.reconfigure)
                              THEN comp_get_data_blob(cd.tuning_handler).config
                              ELSE NULL) \cup failures :
          LET r == Process(cd, pins, env.alg_fail, env.uninit)
          IN  /\ op' = "process"
              /\ args' = [reconfigured |-> ReconfigureNeeded(cd.reconfigure),
                          failed |-> Failed(r, env.alg_fail)]
              /\ pre' = Pre(cd, writes)
              /\ cd' = r.cd
              /\ ret' = r.ret
              /\ calls' = r.calls
              /\ events' = r.events
              /\ steps' = r.steps
              /\ parsed' = r.config
              /\ writes' = IF ReconfigureNeeded(cd.reconfigure) THEN 0 ELSE writes
    /\ UNCHANGED <<cfg, dev_state, pins, written, mem, copy, race>>

\* a cycle in which the library fails in the reconfigure step only
google_rtc_audio_processing_process == ProcessCycle({})

\* a cycle in which it fails anywhere
google_rtc_audio_processing_process_failing == ProcessCycle(CycleFailures)

(* ------------------------ the loops of process() ----------------------- *)

\* lines 618-631 with BUF_TYPE int16_t: the sample read through the
\* uint16_t pointer becomes the int16_t argument, which is returned as it is
convert_int16_to_google_aec_format(sample) ==
    IF sample >= 2^15 THEN sample - 2^16 ELSE sample

\* lines 601-616 with BUF_TYPE int16_t: the value is returned as it is and
\* stored through the uint16_t pointer
convert_google_aec_format_to_int16(data) == data % 2^16

\* lines 697-705, 727-735 and 756-763: the walk of the three loops over a
\* buffer.  Every frame accesses ptr[0] .. ptr[channels - 1]; then the
\* pointer advances by channels and, when it has reached or passed buf_end,
\* goes back to buf_start.  The result lists, frame by frame, the offset of
\* the pointer and the offsets accessed.
RECURSIVE Walk(_, _, _, _, _)
Walk(buf_size, ptr, channels, num_frames, frames) ==
    IF Len(frames) = num_frames
    THEN frames
    ELSE LET next == ptr + channels
         IN  Walk(buf_size,
                  IF next >= buf_size THEN 0 ELSE next,
                  channels, num_frames,
                  Append(frames,
                         [ptr |-> ptr,
                          offsets |-> [c \in 1..channels |-> ptr + c - 1]]))

\* lines 697-705 / 727-735: de-interlace; scratch[c][i] is the sample of
\* channel c in frame i.  A sample read at or beyond buf_end is whatever
\* lies there.
Deinterlace(c, garbage) ==
    LET frames == Walk(c.src.size, c.src.pos, c.used, NumFrames, << >>)
        at(offset) == IF offset < c.src.size THEN In(c.base, offset) ELSE garbage
    IN  [c EXCEPT
            !.stage = "read",
            !.reads = frames,
            !.scratch = [ch \in 1..c.used |->
                           [i \in 1..NumFrames |->
                              convert_int16_to_google_aec_format(
                                 at(frames[i].offsets[ch]))]]]

\* lines 756-763: interlace into the sink buffer, which held zeroes.  A
\* sample written at or beyond buf_end lands outside the buffer.
Interlace(c) ==
    LET frames == Walk(c.dst.size, c.dst.pos, c.used, NumFrames, << >>)
        hits(k) == {<<i, ch>> \in (1..NumFrames) \X (1..c.used) :
                       frames[i].offsets[ch] = k}
        last(k) == CHOOSE h \in hits(k) :
                      \A g \in hits(k) : g[1] <= h[1]
    IN  [c EXCEPT
            !.stage = "written",
            !.writes = frames,
            !.out = [k \in 1..c.dst.size |->
                       IF hits(k - 1) = {} THEN 0
                       ELSE convert_google_aec_format_to_int16(
                               c.scratch[last(k - 1)[2]][last(k - 1)[1]])]]

\* lines 687-705: the reference loop
deinterlace_reference ==
    /\ copy.kind = "ref" /\ copy.stage = "acquired"
    /\ \E garbage \in Beyond : copy' = Deinterlace(copy, garbage)
    /\ UNCHANGED handler_vars

\* lines 725-735: the microphone loop
deinterlace_capture ==
    /\ copy.kind = "src" /\ copy.stage = "acquired"
    /\ \E garbage \in Beyond : copy' = Deinterlace(copy, garbage)
    /\ UNCHANGED handler_vars

\* lines 740-763: a library that leaves the capture as it is, and the
\* output loop
interlace_output ==
    /\ copy.kind = "src" /\ copy.stage = "read"
    /\ copy' = Interlace(copy)
    /\ UNCHANGED handler_vars

(* --------------------- google_rtc_audio_processing_reset --------------- *)

\* lines 594-599: the handler changes nothing; the module adapter takes the
\* component back to READY, where no pins are bound
google_rtc_audio_processing_reset ==
    /\ dev_state \in {"READY", "ACTIVE"}
    /\ op' = "reset"
    /\ args' = [none |-> TRUE]
    /\ pre' = Pre(cd, writes)
    /\ ret' = OK
    /\ calls' = << >>
    /\ events' = << >>
    /\ steps' = << >>
    /\ parsed' = NULL
    /\ dev_state' = "READY"
    /\ pins' = NoPins
    /\ UNCHANGED <<cfg, cd, written, writes, mem, copy, race>>

(* --------------------- google_rtc_audio_processing_free ---------------- *)

\* lines 446-463.  cd is read from md->private.  When cd has been released
\* already, its fields are read from released memory and hold either what
\* they held (stale) or nothing; md->cfg.basecfg_ext and cd itself are
\* released again in either case.
Free(m, stale) ==
    LET m0 == [m EXCEPT !.faults = << >>]
    IN  IF m.private = "NULL"
        THEN [m0 EXCEPT !.faults = <<Fault("null_dereference", "cd")>>]
        ELSE IF m.heap["cd"] = "live"
        THEN ReleaseAll(m0, <<"state", "aec_reference_buffer", "memory_buffer",
                              "process_buffer", "tuning_handler",
                              "basecfg_ext", "cd">>)
        ELSE ReleaseAll(
                [m0 EXCEPT !.faults = <<Fault("use_after_free", "cd")>>],
                IF stale
                THEN <<"state", "aec_reference_buffer", "memory_buffer",
                       "process_buffer", "tuning_handler", "basecfg_ext", "cd">>
                ELSE <<"basecfg_ext", "cd">>)

google_rtc_audio_processing_free ==
    /\ dev_state # "NONE"
    /\ \E stale \in IF mem.heap["cd"] = "freed" THEN BOOLEAN ELSE {FALSE} :
          mem' = Free(mem, stale)
    /\ op' = "free"
    /\ args' = [none |-> TRUE]
    /\ pre' = Pre(cd, writes)
    /\ ret' = OK
    /\ calls' = << >>
    /\ events' = << >>
    /\ steps' = << >>
    /\ parsed' = NULL
    /\ dev_state' = "FREED"
    /\ pins' = NoPins
    /\ UNCHANGED <<cfg, cd, written, writes, copy, race>>

(* --------------- set_config and process() at the same time ------------- *)

\* the k-th blob written: its tuning payload is k
RaceBlob(k) == [PartialBlob EXCEPT !.config = <<k>>]

\* the blob comp_get_data_blob() frees: the current one, when a complete new
\* blob replaces it
FreedByGet(h) ==
    IF comp_is_new_data_blob_available(h) /\ h.data # NULL
    THEN {h.data[1]} ELSE {}

\* the blob comp_data_blob_set() frees when a new message starts: the one
\* that was being received
FreedBySet(h) == IF h.data_new # NULL THEN {h.data_new[1]} ELSE {}

\* a statement of the control plane while the pipeline is inside process(),
\* or the other way round
Overlap(other) == race.overlap \/ other # "idle"

\* line 273 left out
RaiseFlagSkipped(flag) == flag

\* line 273: cd->reconfigure = true
RaiseFlag(flag) == TRUE

\* line 259: comp_data_blob_set() with a whole blob
ctl_blob_set ==
    /\ race.ctl = "idle"
    /\ race.writes < MaxWrites
    /\ LET r == comp_data_blob_set(cd.tuning_handler, dev_state, "SINGLE", 1,
                                   RaceBlob(race.writes + 1))
       IN  /\ cd' = [cd EXCEPT !.tuning_handler = r.handler]
           /\ race' = [race EXCEPT
                          !.ctl = IF r.ret # OK THEN "idle" ELSE "test",
                          !.writes = @ + 1,
                          !.released = @ \cup FreedBySet(cd.tuning_handler),
                          !.overlap = Overlap(race.rt)]
    /\ UNCHANGED race_frame

\* line 271: if (comp_is_new_data_blob_available(...))
ctl_test ==
    /\ race.ctl = "test"
    /\ race' = [race EXCEPT
                   !.ctl = IF comp_is_new_data_blob_available(cd.tuning_handler)
                           THEN "get" ELSE "idle",
                   !.overlap = Overlap(race.rt)]
    /\ UNCHANGED <<cd, race_frame>>

\* line 272: comp_get_data_blob(cd->tuning_handler, NULL, NULL)
ctl_get ==
    /\ race.ctl = "get"
    /\ cd' = [cd EXCEPT !.tuning_handler = comp_get_data_blob(@).handler]
    /\ race' = [race EXCEPT
                   !.ctl = "flag",
                   !.released = @ \cup FreedByGet(cd.tuning_handler),
                   !.overlap = Overlap(race.rt)]
    /\ UNCHANGED race_frame

\* lines 273-276: cd->reconfigure = true; return 0
ctl_flag ==
    /\ race.ctl = "flag"
    /\ cd' = [cd EXCEPT !.reconfigure = RaiseFlag(@)]
    /\ race' = [race EXCEPT !.ctl = "idle", !.overlap = Overlap(race.rt)]
    /\ UNCHANGED race_frame

\* line 669: if (cd->reconfigure), at the start of a cycle
rt_enter ==
    /\ race.rt = "idle"
    /\ ReconfigureNeeded(cd.reconfigure)
    /\ race' = [race EXCEPT !.rt = "test", !.overlap = Overlap(race.ctl)]
    /\ UNCHANGED <<cd, race_frame>>

\* lines 100-111: no blob has arrived yet
rt_test ==
    /\ race.rt = "test"
    /\ race' = [race EXCEPT
                   !.rt = IF ~comp_is_current_data_blob_valid(cd.tuning_handler)
                             /\ ~comp_is_new_data_blob_available(cd.tuning_handler)
                          THEN "idle" ELSE "get",
                   !.overlap = Overlap(race.ctl)]
    /\ UNCHANGED <<cd, race_frame>>

\* lines 113-122: config = comp_get_data_blob(cd->tuning_handler, &size, NULL)
rt_get ==
    /\ race.rt = "get"
    /\ LET g == comp_get_data_blob(cd.tuning_handler)
       IN  /\ cd' = [cd EXCEPT !.tuning_handler = g.handler]
           /\ race' = [race EXCEPT
                          !.rt = IF g.size = 0 \/ g.config = NULL
                                 THEN "idle" ELSE "clear",
                          !.config = g.config,
                          !.released = @ \cup FreedByGet(cd.tuning_handler),
                          !.overlap = Overlap(race.ctl)]
    /\ UNCHANGED race_frame

\* line 127: cd->reconfigure = false
rt_clear ==
    /\ race.rt = "clear"
    /\ cd' = [cd EXCEPT !.reconfigure = ReconfigureFlagAfterFetch(@)]
    /\ race' = [race EXCEPT !.rt = "parse", !.overlap = Overlap(race.ctl)]
    /\ UNCHANGED race_frame

\* lines 138-235: the message reader reads the blob config points to, and
\* the rest of the step and of the cycle
rt_parse ==
    /\ race.rt = "parse"
    /\ race' = [race EXCEPT
                   !.rt = "idle",
                   !.config = NULL,
                   !.applied = @ \cup {race.config[1]},
                   !.stale = @ \/ race.config[1] \in race.released,
                   !.overlap = Overlap(race.ctl)]
    /\ UNCHANGED <<cd, race_frame>>

(* ----------------------------- specification --------------------------- *)

\* The control plane writes any of Blobs, those that carry every field in
\* one fragment or in several; the pipeline binds a microphone and a
\* reference source and a sink.
Next ==
    \/ google_rtc_audio_processing_init
    \/ google_rtc_audio_processing_set_config(Blobs, FullBlobs)
    \/ google_rtc_audio_processing_prepare(BoundPins)
    \/ google_rtc_audio_processing_process
    \/ google_rtc_audio_processing_reset

Spec == Init /\ [][Next]_vars

\* Any configuration and any pins; the control plane writes channel counts.
NextPins ==
    \/ google_rtc_audio_processing_init
    \/ google_rtc_audio_processing_set_config(ChannelBlobs, ChannelBlobs)
    \/ google_rtc_audio_processing_prepare(AnyPins)
    \/ google_rtc_audio_processing_process
    \/ google_rtc_audio_processing_reset

SpecPins == InitPins /\ [][NextPins]_vars

\* A reference of any channel count and encoding next to the capture; the
\* control plane writes channel counts.
NextCycle ==
    \/ google_rtc_audio_processing_init
    \/ google_rtc_audio_processing_set_config(ChannelBlobs, ChannelBlobs)
    \/ google_rtc_audio_processing_prepare(CyclePins)
    \/ google_rtc_audio_processing_process
    \/ google_rtc_audio_processing_reset

SpecCycle == InitCycle /\ [][NextCycle]_vars

\* The life of an instance: init(), which succeeds or fails at any step, a
\* blob written, and free() any number of times.
NextLife ==
    \/ google_rtc_audio_processing_init
    \/ google_rtc_audio_processing_set_config(ChannelBlobs, ChannelBlobs)
    \/ google_rtc_audio_processing_free

SpecLife == InitLife /\ [][NextLife]_vars

\* prepare() tried again and again: any configuration, pins that pass or
\* fail any of the checks, a blob with channel counts written in one piece,
\* no cycle.
NextRetry ==
    \/ google_rtc_audio_processing_init
    \/ google_rtc_audio_processing_set_config(ChannelBlobs, {})
    \/ google_rtc_audio_processing_prepare(RetryPins)
    \/ google_rtc_audio_processing_reset

SpecRetry == InitPins /\ [][NextRetry]_vars

\* The library fails in any of its entry points; the control plane writes
\* blobs that carry every field.
NextFail ==
    \/ google_rtc_audio_processing_init
    \/ google_rtc_audio_processing_set_config(FullBlobs, FullBlobs)
    \/ google_rtc_audio_processing_prepare(BoundPins)
    \/ google_rtc_audio_processing_process_failing
    \/ google_rtc_audio_processing_reset

SpecFail == Init /\ [][NextFail]_vars

\* The configurations with which init() and then prepare(), given some
\* microphone source, reference source and sink, succeed.
RaceConfigs ==
    {c \in GoodConfigs :
        \E a \in BoundPins :
           Prepare(InitialCd(c), c, a.sources, a.sinks, "none", 0).ret = OK}

\* The instance after init() and a prepare() without a blob, or after a
\* first blob has been written and applied in a cycle.
InitRace ==
    /\ cfg \in RaceConfigs
    /\ \E a \in BoundPins, first \in BOOLEAN :
          LET r == Prepare(InitialCd(cfg), cfg, a.sources, a.sinks, "none", 0)
              applied == [tuning_handler |-> [NewHandler EXCEPT
                                                !.data = <<RaceBlob(0)>>],
                          reconfigure |-> FALSE]
          IN  /\ r.ret = OK
              /\ cd = IF first
                      THEN [r.cd EXCEPT
                              !.tuning_handler = applied.tuning_handler,
                              !.reconfigure = applied.reconfigure]
                      ELSE r.cd
              /\ race = IF first
                        THEN [NoRace EXCEPT !.applied = {RaceBlob(0)}]
                        ELSE NoRace
              /\ pins = r.pins
              /\ args = [pins |-> PinFacts(r.cd, cfg, a.sources, a.sinks),
                         reconfigured |-> TRUE, failed |-> "none",
                         retry |-> FALSE]
    /\ dev_state = "ACTIVE"
    /\ op = "prepare"
    /\ ret = OK
    /\ calls = << >>
    /\ events = << >>
    /\ steps = << >>
    /\ mem = InitMem(0)
    /\ copy = NoCopy
    /\ parsed = NULL
    /\ pre = Pre(InitialCd(cfg), 0)
    /\ written = NULL
    /\ writes = 0

\* set_config and the reconfigure step of process(), statement by
\* statement, in any interleaving.
NextRace ==
    \/ ctl_blob_set
    \/ ctl_test
    \/ ctl_get
    \/ ctl_flag
    \/ rt_enter
    \/ rt_test
    \/ rt_get
    \/ rt_clear
    \/ rt_parse

SpecRace == InitRace /\ [][NextRace]_vars

\* The three loops of a cycle over any buffer and any channel count.
NextCopy ==
    \/ deinterlace_reference
    \/ deinterlace_capture
    \/ interlace_output

SpecCopy == InitCopy /\ [][NextCopy]_vars

(* ------------------------------ properties ----------------------------- *)

\* the last handler ran the reconfigure step (prepare() runs it once the pins
\* have passed its checks, process() at the start of every cycle)
ApplyStep ==
    \/ op = "process"
    \/ op = "prepare" /\ args.reconfigured

\* the reconfigure step of the last handler decoded a blob
Applied == ApplyStep /\ parsed # NULL

\* the calls the reconfigure step made to the library
ApplyCalls ==
    SelectSeq(calls, LAMBDA c : c.fn \in {"Reconfigure", "SetStreamFormats",
                                          "Parameters"})

BothChannelCounts(b) ==
    Present(b.num_capture_input_channels)
    /\ Present(b.num_capture_output_channels)
OneChannelCount(b) ==
    Present(b.num_capture_input_channels)
    # Present(b.num_capture_output_channels)
Mismatch(b) ==
    BothChannelCounts(b)
    /\ b.num_capture_input_channels # b.num_capture_output_channels

\* C1: when one or several complete blobs were written since the last
\* reconfigure step, the next reconfigure step (in prepare() or in a process()
\* cycle) decodes the blob written last, which is the handler's current
\* blob, and leaves the pending flag clear.
C1_LastWrittenBlobApplied ==
    (ApplyStep /\ pre.writes >= 1) =>
        /\ parsed = written
        /\ cd.tuning_handler.data = written
        /\ ~comp_is_new_data_blob_available(cd.tuning_handler)
        /\ ~cd.reconfigure

C1_Witness ==
    /\ op = "process"
    /\ pre.writes = 2
    /\ parsed = written
    /\ parsed # NULL
    /\ ~cd.reconfigure

\* C2: after a successful reconfigure step on a blob with exactly one of the
\* two channel counts, the capture channel count is the count that is
\* present.
C2_SingleCountAdopted ==
    (Applied /\ ret = OK /\ OneChannelCount(parsed[1])) =>
        <<cd.num_capture_channels>> =
            IF Present(parsed[1].num_capture_input_channels)
            THEN parsed[1].num_capture_input_channels
            ELSE parsed[1].num_capture_output_channels

C4_NothingAppliedOnMismatch ==
    (Applied /\ Mismatch(parsed[1]) /\ ret = EINVAL) =>
        /\ ApplyCalls = << >>
        /\ cd.num_capture_channels = pre.num_capture_channels

\* C5, as stated: with the pending flag clear, the reconfigure step of
\* prepare() and of process() returns 0, calls nothing and leaves the channel
\* count alone.
C5_NoApplyWhenFlagClear ==
    (ApplyStep /\ ~pre.reconfigure) =>
        /\ ret = OK
        /\ ApplyCalls = << >>
        /\ cd.num_capture_channels = pre.num_capture_channels

\* C5, amended: with the pending flag clear, a process() cycle skips the
\* reconfigure step: it returns 0, decodes no blob, makes none of the three
\* calls and leaves the channel count alone.  (prepare() runs the step
\* whatever the flag.)
C5_ProcessSkipsApply ==
    (op = "process" /\ ~pre.reconfigure) =>
        /\ ret = OK
        /\ parsed = NULL
        /\ ApplyCalls = << >>
        /\ cd.num_capture_channels = pre.num_capture_channels
        /\ ~cd.reconfigure

C5_Witness ==
    /\ op = "process"
    /\ ~pre.reconfigure
    /\ comp_is_current_data_blob_valid(cd.tuning_handler)
    /\ ret = OK
    /\ ApplyCalls = << >>

RolesComplete ==
    /\ args.pins.num_of_sources = GOOGLE_RTC_NUM_INPUT_PINS
    /\ args.pins.num_of_sinks = GOOGLE_RTC_NUM_OUTPUT_PINS
    /\ args.pins.feedback = 1

\* the rate and the encoding prepare() reads on the sink, which are those
\* of the audio format of the configuration (line 514), are supported
FormatSupported ==
    /\ cfg.audio_fmt.sampling_frequency = SampleRateHz
    /\ cfg.audio_fmt.frame_fmt = "S16_LE"

C8_SucceedsIffFormatSupported ==
    op = "prepare" => (ret = OK <=> FormatSupported)

\* C8, amended: prepare() succeeds only if the rate is the configured rate
\* and the encoding is supported, and with any other rate or encoding it
\* returns -EINVAL.
C8_FormatRequired ==
    op = "prepare" =>
        /\ ret = OK => FormatSupported
        /\ ~FormatSupported => ret = EINVAL

C8_Witness ==
    /\ op = "prepare"
    /\ RolesComplete
    /\ args.pins.quanta_equal
    /\ ~FormatSupported
    /\ ret = EINVAL

\* C9: prepare() fails whenever on the reference source, the microphone
\* source or the sink the byte quantum is not num_frames * frame size; when
\* it succeeds the two are equal on the three pins.
C9_QuantaChecked ==
    op = "prepare" =>
        /\ ~args.pins.quanta_equal => ret = EINVAL
        /\ ret = OK => args.pins.quanta_equal

C9_Witness ==
    /\ op = "prepare"
    /\ RolesComplete
    /\ FormatSupported
    /\ ~args.pins.quanta_equal
    /\ ret = EINVAL

Acquire == {"source_get_data", "sink_get_buffer"}
Release == {"source_release_data", "sink_commit_buffer"}
ReleaseOf(fn) ==
    IF fn = "source_get_data" THEN "source_release_data"
    ELSE "sink_commit_buffer"

\* C10: in a process() cycle every view acquired on a pin is released (a
\* source) or committed (the sink) exactly once afterwards, with the byte
\* count it was acquired with, and nothing is released that was not
\* acquired; a cycle that returns 0 has done so on the three pins.
C10_ViewsReleased ==
    op = "process" =>
        /\ \A i \in 1..Len(events) :
              events[i].fn \in Acquire =>
                 \E j \in (i + 1)..Len(events) :
                    /\ events[j] = Event(ReleaseOf(events[i].fn),
                                         events[i].pin, events[i].bytes)
                    /\ \A k \in 1..Len(events) :
                          (k # i /\ k # j) => events[k].pin # events[i].pin
        /\ \A j \in 1..Len(events) :
              events[j].fn \in Release =>
                 \E i \in 1..(j - 1) :
                    /\ events[i].pin = events[j].pin
                    /\ events[i].fn \in Acquire
        /\ ret = OK => {events[i].pin : i \in 1..Len(events)}
                           = {"ref", "src", "dst"}
        /\ ret # OK => events = << >>

C10_Witness ==
    /\ op = "process"
    /\ ret = OK
    /\ Len(events) = 2 * (GOOGLE_RTC_NUM_INPUT_PINS + GOOGLE_RTC_NUM_OUTPUT_PINS)
    /\ \E i \in 1..Len(events) :
          events[i] = Event("sink_commit_buffer", "dst",
                            cd.num_frames * FrameBytes(pins.sinks[1]))

\* C16: set_config with a switch or an enum control id returns -EINVAL and
\* changes nothing: the blob handler, the pending flag, the channel counts
\* and the component state are as before, and no call is made to the
\* library.
C16_UnsupportedControlRejected ==
    [][(op' = "set_config"
        /\ args'.param_id \in {"SOF_IPC4_SWITCH_CONTROL_PARAM_ID",
                               "SOF_IPC4_ENUM_CONTROL_PARAM_ID"}) =>
           /\ ret' = EINVAL
           /\ cd' = cd
           /\ dev_state' = dev_state
           /\ pins' = pins
           /\ calls' = << >>]_vars

C16_Witness ==
    /\ op = "set_config"
    /\ args.param_id = "SOF_IPC4_SWITCH_CONTROL_PARAM_ID"
    /\ ret = EINVAL
    /\ dev_state = "ACTIVE"
    /\ comp_is_current_data_blob_valid(cd.tuning_handler)
    /\ cd.reconfigure

\* C17: set_config applies nothing of a blob: it makes no call to the
\* library, decodes no blob and leaves the capture channel count alone; a
\* blob is decoded in prepare() and in process() only.
C17_SetConfigAppliesNothing ==
    /\ op = "set_config" =>
          /\ calls = << >>
          /\ parsed = NULL
          /\ cd.num_capture_channels = pre.num_capture_channels
    /\ parsed # NULL => op \in {"prepare", "process"}

C17_Witness ==
    /\ op = "set_config"
    /\ ret = OK
    /\ dev_state = "ACTIVE"
    /\ written # NULL
    /\ cd.tuning_handler.data = written
    /\ BothChannelCounts(written[1])
    /\ ~Mismatch(written[1])
    /\ written[1].num_capture_input_channels # <<cd.num_capture_channels>>
    /\ calls = << >>

\* the GoogleRtcAudioProcessingParameters calls of the reconfigure step
ParametersCalls ==
    SelectSeq(ApplyCalls, LAMBDA c : c.fn = "Parameters")

\* the blob carries a delay or a gain
HasParameters(b) == Present(b.aec_reference_delay) \/ Present(b.mic_gain)

\* the one call the blob asks for: the gain and the delay, NULL for the
\* one that is absent
ParametersCallOf(b) == Call("Parameters", b.mic_gain, b.aec_reference_delay)

\* C18, as stated: a reconfigure step on a blob with a delay or a gain makes
\* exactly one GoogleRtcAudioProcessingParameters call, with the values
\* present and NULL for the absent one; without delay and gain it makes none.
C18_ExactlyOneParametersCall ==
    Applied =>
        ParametersCalls = IF HasParameters(parsed[1])
                          THEN <<ParametersCallOf(parsed[1])>>
                          ELSE << >>

\* C18, amended: a reconfigure step on a blob with a delay or a gain makes
\* at most one GoogleRtcAudioProcessingParameters call, with the values
\* present and NULL for the absent one, and exactly one unless the step
\* failed before on the tuning payload or on the channel counts; without
\* delay and gain it makes none.
C18_OneParametersCallUnlessFailed ==
    Applied =>
        IF HasParameters(parsed[1])
        THEN \/ ParametersCalls = <<ParametersCallOf(parsed[1])>>
             \/ /\ ParametersCalls = << >>
                /\ ret # OK
                /\ \/ Mismatch(parsed[1]) /\ ret = EINVAL
                   \/ /\ ret = ALGERR
                      /\ ApplyCalls # << >>
                      /\ ApplyCalls[Len(ApplyCalls)].fn
                            \in {"Reconfigure", "SetStreamFormats"}
        ELSE ParametersCalls = << >>

C18_Witness ==
    /\ Applied
    /\ ret = OK
    /\ Present(parsed[1].mic_gain)
    /\ ~Present(parsed[1].aec_reference_delay)
    /\ ParametersCalls = <<Call("Parameters", parsed[1].mic_gain, NULL)>>

\* what a step of a cycle is: the function called and, for a call on a
\* pin, the pin
StepName(s) ==
    [fn |-> s.fn, pin |-> IF s.fn \in Acquire \cup Release THEN s.pin ELSE "none"]

\* the steps of a cycle after its reconfigure step, in the order of the
\* specification
CycleOrder ==
    <<[fn |-> "source_get_data", pin |-> "ref"],
      [fn |-> "AnalyzeRender", pin |-> "none"],
      [fn |-> "source_release_data", pin |-> "ref"],
      [fn |-> "source_get_data", pin |-> "src"],
      [fn |-> "source_release_data", pin |-> "src"],
      [fn |-> "ProcessCapture", pin |-> "none"],
      [fn |-> "sink_get_buffer", pin |-> "dst"],
      [fn |-> "sink_commit_buffer", pin |-> "dst"]>>

\* C14: a process() cycle that returns 0 has made the calls of its
\* reconfigure step first and then, in this order: reference acquire,
\* AnalyzeRender, reference release, microphone acquire, microphone release,
\* ProcessCapture, sink acquire, sink commit; a cycle whose reconfigure step
\* failed has acquired nothing.
C14_CycleOrder ==
    op = "process" =>
        LET n == Len(ApplyCalls)
        IN  /\ SubSeq(steps, 1, n) = ApplyCalls
            /\ IF ret = OK
               THEN /\ Len(steps) = n + Len(CycleOrder)
                    /\ \A i \in 1..Len(CycleOrder) :
                          StepName(steps[n + i]) = CycleOrder[i]
               ELSE Len(steps) = n

C14_Witness ==
    /\ op = "process"
    /\ ret = OK
    /\ args.reconfigured
    /\ Len(ApplyCalls) >= 2
    /\ Len(steps) = Len(ApplyCalls) + Len(CycleOrder)
    /\ StepName(steps[Len(steps)]) = [fn |-> "sink_commit_buffer", pin |-> "dst"]

\* the byte count of the last call of fn on pin in the cycle
EventBytes(fn, pin) ==
    LET i == CHOOSE i \in 1..Len(events) :
                 /\ events[i].fn = fn /\ events[i].pin = pin
                 /\ \A j \in (i + 1)..Len(events) :
                       ~(events[j].fn = fn /\ events[j].pin = pin)
    IN  events[i].bytes

\* C13: a process() cycle that returns 0 commits num_frames * frame size of
\* the sink (num_frames * output channels * sample size) to the sink and
\* releases num_frames * frame size of the source from each source.
C13_BytesPerCycle ==
    (op = "process" /\ ret = OK) =>
        LET ref == pins.sources[cd.aec_reference_source + 1]
            mic == pins.sources[cd.raw_microphone_source + 1]
            sink == pins.sinks[1]
        IN  /\ EventBytes("sink_commit_buffer", "dst")
                  = cd.num_frames * FrameBytes(sink)
            /\ EventBytes("sink_commit_buffer", "dst")
                  = cd.num_frames * pins.output_stream_channels
                       * SampleBytes(sink.frame_fmt)
            /\ EventBytes("source_release_data", "ref")
                  = cd.num_frames * FrameBytes(ref)
            /\ EventBytes("source_release_data", "src")
                  = cd.num_frames * FrameBytes(mic)

C13_Witness ==
    /\ op = "process"
    /\ ret = OK
    /\ FrameBytes(pins.sources[cd.aec_reference_source + 1])
          # FrameBytes(pins.sinks[1])
    /\ cd.num_capture_channels # pins.output_stream_channels
    /\ EventBytes("sink_commit_buffer", "dst")
          = cd.num_frames * FrameBytes(pins.sinks[1])

\* C19: free(), called once or several times after an init() that succeeded
\* or failed, releases nothing twice and reads nothing that has been
\* released.
C19_ReleasedOnceNeverUsedAfter ==
    op = "free" =>
        \A i \in 1..Len(mem.faults) :
            mem.faults[i].fault \notin {"double_free", "use_after_free"}

\* C20: an init() that fails at any step returns a non-zero value and has
\* released every allocation it had made: nothing it allocated is live,
\* nothing was released twice.
C20_FailedInitReleasesAll ==
    (op = "init" /\ args.fail # 0) =>
        /\ ret # OK
        /\ \A r \in Resources :
              mem.heap[r] = IF r \in Allocated(args.fail) THEN "freed" ELSE "none"
        /\ mem.faults = << >>

C20_Witness ==
    /\ op = "init"
    /\ ret = ENOMEM
    /\ args.fail = Len(InitSteps)
    /\ mem.heap["process_buffer"] = "freed"
    /\ mem.heap["state"] = "freed"
    /\ mem.heap["cd"] = "freed"
    /\ mem.heap["aec_reference_buffer"] = "none"

\* the contiguous view from the pointer handed out to the end of the buffer
\* is shorter than the num_frames frames asked for
ViewWraps(ring, channels) == ring.size - ring.pos < NumFrames * channels

\* every access of the walk lies inside the buffer, and frame N of the walk
\* starts N frames of the pin after the position handed out, modulo the size
WalkWraps(frames, ring, channels) ==
    \A n \in 1..Len(frames) :
        /\ frames[n].ptr = (ring.pos + (n - 1) * channels) % ring.size
        /\ \A c \in 1..Len(frames[n].offsets) :
              frames[n].offsets[c] < ring.size

\* C11: when the view from the pointer handed out to the end of the buffer
\* is shorter than the frames asked for, no access of the reference loop,
\* of the microphone loop or of the output loop lies at or beyond the end of
\* the buffer, and frame N is accessed at (position + N * frame size) modulo
\* the buffer size.
C11_WrapWithinRegion ==
    /\ (copy.stage \in {"read", "written"} /\ ViewWraps(copy.src, copy.channels))
          => WalkWraps(copy.reads, copy.src, copy.channels)
    /\ (copy.stage = "written" /\ ViewWraps(copy.dst, copy.channels))
          => WalkWraps(copy.writes, copy.dst, copy.channels)

\* C12: a cycle with a library that leaves the capture as it is writes, for
\* every frame and every capture channel, the sample it read: the sample of
\* that frame and channel in the sink buffer is the one in the microphone
\* buffer.
C12_OutputEqualsInput ==
    copy.stage = "written" =>
        \A f \in 0..(NumFrames - 1) :
            \A c \in 0..(copy.used - 1) :
                c < copy.channels =>
                    copy.out[((copy.dst.pos + f * copy.channels + c)
                                 % copy.dst.size) + 1]
                    = In(copy.base, (copy.src.pos + f * copy.channels + c)
                                       % copy.src.size)

\* C15: when the reference pin carries more channels than the library needs,
\* the reference scratch of channel c holds at frame i the sample of channel
\* c of frame i of the pin's stream.
C15_ReferenceScratch ==
    (copy.kind = "ref" /\ copy.stage = "read" /\ copy.channels > copy.used) =>
        \A i \in 0..(NumFrames - 1) :
            \A c \in 0..(copy.used - 1) :
                copy.scratch[c + 1][i + 1]
                = convert_int16_to_google_aec_format(
                     In(copy.base, (copy.src.pos + i * copy.channels + c)
                                      % copy.src.size))

\* a prepare() of cd c with the arrays a
PrepareWith(c, a, env) ==
    Prepare(c, cfg, a.sources, a.sinks, env.alg_fail, env.uninit)

\* the environments of the reconfigure step of a prepare() of cd c
PrepareEnvironments(c) ==
    Environments(comp_get_data_blob(c.tuning_handler).config)

ScratchOwned ==
    /\ mem.heap["process_buffer"] = "live"
    /\ mem.heap["aec_reference_buffer"] = "live"

\* C22: after reset() the pending flag is clear and the scratch buffers
\* allocated by init() are still owned by the instance.
C22_ResetClearsPending ==
    (op = "reset" /\ ret = OK) =>
        /\ ~cd.reconfigure
        /\ ScratchOwned

\* no entry point of the library is called twice by the last handler
NoRetry ==
    \A i, j \in 1..Len(calls) : calls[i].fn = calls[j].fn => i = j

\* C23: when an entry point of the library answers non-zero in a process()
\* cycle (Reconfigure, SetStreamFormats, Parameters, AnalyzeRender,
\* ProcessCapture) the cycle returns non-zero and has called it once; when
\* one answers non-zero in the reconfigure step of prepare(), prepare()
\* returns non-zero.
C23_AlgorithmFailureSurfaces ==
    (op \in {"process", "prepare"} /\ args.failed # "none") =>
        /\ ret # OK
        /\ NoRetry

\* both contexts are outside their handlers
Quiescent == race.ctl = "idle" /\ race.rt = "idle"

\* the blob written last is the current one (or waits to become it), it has
\* not been decoded by a reconfigure step, and with the pending flag clear
\* no cycle will decode it
LostWrite ==
    /\ Quiescent
    /\ ~cd.reconfigure
    /\ \/ /\ cd.tuning_handler.data # NULL
          /\ cd.tuning_handler.data[1] \notin race.applied
       \/ /\ comp_is_new_data_blob_available(cd.tuning_handler)
          /\ cd.tuning_handler.data_new[1] \notin race.applied

\* the reconfigure step has decoded a blob that set_config had replaced and
\* released
StaleRead == race.stale

\* C24: a state in which a blob that was written whole is not applied and
\* the pending flag is clear, and a state in which the reconfigure step reads
\* a blob that set_config has replaced and released, are reached only when a
\* statement of set_config has run between the statements of the
\* reconfigure step of process() (or the other way round); when each
\* handler runs from its first statement to its last without the other,
\* neither state is reached.
C24_RaceOnlyWhenInterleaved ==
    (LostWrite \/ StaleRead) => race.overlap

\* both happen when the two run at the same time
C24_Witness ==
    /\ LostWrite
    /\ StaleRead
    /\ race.overlap

\* lines 389-413: the rows init() has laid out in the two scratch buffers
\* and pointed process_buffer_ptrs / aec_reference_buffer_ptrs to, one per
\* channel of the configuration
ScratchRows(c) ==
    [capture |-> c.audio_fmt.channels_count,
     reference |-> c.reference_fmt.channels_count]

\* C25: the channel counts with which a process() cycle indexes
\* process_buffer_ptrs and aec_reference_buffer_ptrs are at most the number
\* of rows init() allocated and pointed them to, also after the reconfigure
\* step has taken a channel count from a blob.  (Those rows are within the
\* pointer arrays; a count within the rows is within the arrays.)
C25_ScratchWithinAllocation ==
    (op = "process" /\ events # << >>) =>
        /\ cd.num_capture_channels <= ScratchRows(cfg).capture
        /\ cd.num_aec_reference_channels <= ScratchRows(cfg).reference

\* C26: init() leaves the pending flag set; the flag is set as long as no
\* blob has become the handler's current blob; a reconfigure step that finds
\* no blob returns 0 and leaves the flag as it was; and a process() cycle
\* that starts with the flag set after a blob has been written decodes that
\* blob.
C26_PendingUntilFirstBlob ==
    /\ (op = "init" /\ ret = OK) => cd.reconfigure
    /\ (dev_state \in {"READY", "ACTIVE"}
        /\ ~comp_is_current_data_blob_valid(cd.tuning_handler))
          => cd.reconfigure
    /\ (ApplyStep /\ parsed = NULL) =>
          /\ ret = OK
          /\ cd.reconfigure = pre.reconfigure
    /\ (op = "process" /\ pre.reconfigure /\ pre.writes >= 1) =>
          /\ parsed # NULL
          /\ parsed = written

\* a cycle that started with the flag set and decoded the one blob written
\* since the step before
C26_Witness ==
    /\ op = "process"
    /\ pre.reconfigure
    /\ pre.writes = 1
    /\ parsed # NULL
    /\ parsed = written
    /\ ret = OK
    /\ ~cd.reconfigure

\* a set_config that delivered the last byte of a blob, which is now the
\* handler's current blob (writes counts the blobs completed, up to 2)
NewBlobWritten ==
    /\ op' = "set_config"
    /\ ret' = OK
    /\ writes' # writes \/ writes' = 2
    /\ written' # NULL
    /\ cd'.tuning_handler.data = written'

\* C27: a reconfigure step that has fetched a blob leaves the pending flag
\* clear whatever it returns, also when the library or the channel counts
\* made it fail; a process() cycle that starts with the flag clear decodes
\* nothing and makes no call of the reconfigure step; and the flag is raised
\* again only by a set_config that completes a new blob (or by init()).
C27_FlagClearedOnFetch ==
    /\ [](/\ Applied => ~cd.reconfigure
          /\ (op = "process" /\ ~pre.reconfigure) =>
                /\ parsed = NULL
                /\ ApplyCalls = << >>
                /\ ~cd.reconfigure)
    /\ [][(~cd.reconfigure /\ cd'.reconfigure) =>
             (op' = "init" \/ NewBlobWritten)]_vars

\* a cycle that leaves alone a blob with two different channel counts, which
\* an earlier reconfigure step has fetched and rejected
C27_Witness ==
    /\ op = "process"
    /\ ~pre.reconfigure
    /\ parsed = NULL
    /\ writes = 0
    /\ written # NULL
    /\ cd.tuning_handler.data = written
    /\ Mismatch(written[1])
    /\ ~cd.reconfigure

====
